---- MODULE Spec2Model ----
(***************************************************************************)
(* Model of libraries/AP_NavEKF3/AP_NavEKF3_Outputs.cpp: the read-only     *)
(* output layer of NavEKF3_core (health, error score, position resolution, *)
(* innovation reporting, status report).                                   *)
(*                                                                         *)
(* Number representation.  C++ floats are modelled as exact fixed-point    *)
(* integers:                                                               *)
(*   - test ratios, error scores and innovations: hundredths (1.0 = 100);  *)
(*   - horizontal positions: centimetres;                                  *)
(*   - vertical positions, terrain, ekfGpsRefHgt: millimetres;             *)
(*   - Location.alt: centimetres (int32 in the source);                    *)
(*   - Location.lat / lng: 1e-7 degrees (int32 in the source);             *)
(*   - timestamps: unsigned milliseconds with wrap-around (see TimerBits). *)
(* Float-to-int32 conversions truncate toward zero as in C++.              *)
(***************************************************************************)
EXTENDS Integers, FiniteSets, Sequences, TLC

VARIABLES
    \* ---- filter state read by healthy() / getFilterFaults() ----
    quat_is_nan,            \* stateStruct.quat.is_nan()
    velocity_is_nan,        \* stateStruct.velocity.is_nan()
    faultStatus,            \* [bad_xmag, bad_ymag, bad_zmag, bad_airspeed, bad_sideslip]
    statesInitialised,
    velTestRatio,
    posTestRatio,
    hgtTestRatio,
    imuSampleTime_ms,
    ekfStartTime_ms,
    onGround,
    PV_AidingMode,
    innovVelPos,            \* [0..5 -> innovation]
    hgtInnovFiltState,
    \* ---- read by errorScore() ----
    tiltAlignComplete,
    yawAlignComplete,
    tasTestRatio,
    magTestRatio,           \* [x, y, z]
    zeroSideslip,           \* value of assume_zero_sideslip()
    arsp,                   \* dal.airspeed(): [present, num_sensors]
    affinity,               \* frontend->_affinity, as the set of affinity bits that are set
    \* ---- read by the position resolver ----
    outputDataNew,          \* [position |-> [x, y, z]]
    posOffsetNED,           \* [x, y, z]
    validOrigin,
    EKF_origin,             \* Location
    gps,                    \* dal.gps(): [status, location] of selected_gps
    rngBcnAlignmentStarted,
    receiverPos,            \* [x, y]
    lastKnownPositionNE,    \* [x, y]
    originHgtMode,          \* frontend->_originHgtMode
    ekfGpsRefHgt,
    filterStatus,           \* [flags |-> [...]]
    terrainState,
    hgtTimeout,
    gndOffsetValid,
    \* ---- read by the innovation reporter ----
    millis,                 \* AP_HAL::millis()
    gpsVelInnovTime_ms,
    gpsVelInnov,
    gpsVelVarInnov,
    extNavVelInnovTime_ms,
    extNavVelInnov,
    extNavVelVarInnov,
    featureExternalNav,     \* EK3_FEATURE_EXTERNAL_NAV of the build
    \* ---- read by getVariances() / send_status_report() ----
    yawTestRatio,
    auxRngTestRatio,
    posResetNE,             \* [x, y]
    useRngSwHgt,            \* frontend->_useRngSwHgt
    activeHgtSource,        \* AP_NavEKF_Source::SourceZ
    flowDataValid,
    \* ---- history of the run ----
    elapsedSinceStart,      \* true milliseconds between the latch of ekfStartTime_ms and the IMU sample
    gpsInnovAge,            \* true milliseconds between the GPS innovation time stamp and millis()
    \* ---- the last query made, its arguments and what it returned ----
    op,
    arg,
    ret

healthVars == <<quat_is_nan, velocity_is_nan, faultStatus, statesInitialised,
                velTestRatio, posTestRatio, hgtTestRatio, imuSampleTime_ms,
                ekfStartTime_ms, onGround, PV_AidingMode, innovVelPos,
                hgtInnovFiltState, elapsedSinceStart>>
scoreVars  == <<tiltAlignComplete, yawAlignComplete, tasTestRatio, magTestRatio,
                zeroSideslip, arsp, affinity>>
posVars    == <<outputDataNew, posOffsetNED, validOrigin, EKF_origin, gps,
                rngBcnAlignmentStarted, receiverPos, lastKnownPositionNE,
                originHgtMode, ekfGpsRefHgt, filterStatus, terrainState,
                hgtTimeout, gndOffsetValid>>
innovVars  == <<millis, gpsVelInnovTime_ms, gpsVelInnov, gpsVelVarInnov,
                extNavVelInnovTime_ms, extNavVelInnov, extNavVelVarInnov,
                featureExternalNav, gpsInnovAge>>
reportVars == <<yawTestRatio, auxRngTestRatio, posResetNE, useRngSwHgt,
                activeHgtSource, flowDataValid>>
coreVars   == <<healthVars, scoreVars, posVars, innovVars, reportVars>>
vars       == <<coreVars, op, arg, ret>>

(***************************************************************************)
(* Arithmetic helpers                                                      *)
(***************************************************************************)
\* The millisecond timers are uint32_t.  TLC evaluates integers as 32-bit
\* signed values, so the timers are modelled at a width of TimerBits bits: they wrap
\* at TimerWrap instead of 2^32, and the thresholds they are compared with
\* (1000 ms, 500 ms) keep their values.
TimerBits == 16
TimerWrap == 2^TimerBits

\* uint32_t subtraction, at the modelled width
SubU32(a, b) == (a - b) % TimerWrap

\* a float literal, in hundredths
Fx(n) == 100 * n

\* the MAX macro
MAX(a, b) == IF a > b THEN a ELSE b

sq(x) == x * x

fabsf(x) == IF x < 0 THEN -x ELSE x

\* C++ conversion of a quotient to an integer: truncation toward zero
TruncDiv(a, b) == IF a >= 0 THEN a \div b ELSE -((-a) \div b)

B(b) == IF b THEN 1 ELSE 0

(***************************************************************************)
(* The NavEKF3_core object (with the dal / frontend values it reads), as   *)
(* the record handed to the const member functions.                        *)
(***************************************************************************)
core ==
    [ quat_is_nan |-> quat_is_nan, velocity_is_nan |-> velocity_is_nan,
      faultStatus |-> faultStatus, statesInitialised |-> statesInitialised,
      velTestRatio |-> velTestRatio, posTestRatio |-> posTestRatio,
      hgtTestRatio |-> hgtTestRatio, imuSampleTime_ms |-> imuSampleTime_ms,
      ekfStartTime_ms |-> ekfStartTime_ms, onGround |-> onGround,
      PV_AidingMode |-> PV_AidingMode, innovVelPos |-> innovVelPos,
      hgtInnovFiltState |-> hgtInnovFiltState,
      tiltAlignComplete |-> tiltAlignComplete, yawAlignComplete |-> yawAlignComplete,
      tasTestRatio |-> tasTestRatio, magTestRatio |-> magTestRatio,
      zeroSideslip |-> zeroSideslip, arsp |-> arsp, affinity |-> affinity,
      outputDataNew |-> outputDataNew, posOffsetNED |-> posOffsetNED,
      validOrigin |-> validOrigin, EKF_origin |-> EKF_origin, gps |-> gps,
      rngBcnAlignmentStarted |-> rngBcnAlignmentStarted, receiverPos |-> receiverPos,
      lastKnownPositionNE |-> lastKnownPositionNE, originHgtMode |-> originHgtMode,
      ekfGpsRefHgt |-> ekfGpsRefHgt, filterStatus |-> filterStatus,
      terrainState |-> terrainState, hgtTimeout |-> hgtTimeout,
      gndOffsetValid |-> gndOffsetValid,
      millis |-> millis, gpsVelInnovTime_ms |-> gpsVelInnovTime_ms,
      gpsVelInnov |-> gpsVelInnov, gpsVelVarInnov |-> gpsVelVarInnov,
      extNavVelInnovTime_ms |-> extNavVelInnovTime_ms,
      extNavVelInnov |-> extNavVelInnov, extNavVelVarInnov |-> extNavVelVarInnov,
      featureExternalNav |-> featureExternalNav,
      yawTestRatio |-> yawTestRatio, auxRngTestRatio |-> auxRngTestRatio,
      posResetNE |-> posResetNE, useRngSwHgt |-> useRngSwHgt,
      activeHgtSource |-> activeHgtSource, flowDataValid |-> flowDataValid ]

(***************************************************************************)
(* FaultStatusAggregator: getFilterFaults                                  *)
(***************************************************************************)
getFilterFaults_DropSideslip(s) ==
      B(s.quat_is_nan)
    + B(s.velocity_is_nan) * 2
    + B(s.faultStatus.bad_xmag) * 4
    + B(s.faultStatus.bad_ymag) * 8
    + B(s.faultStatus.bad_zmag) * 16
    + B(s.faultStatus.bad_airspeed) * 32
    + B(~s.statesInitialised) * 128

\* the bits are disjoint, so the bitwise OR of the shifted flags is their sum
getFilterFaults(s) ==
      B(s.quat_is_nan)
    + B(s.velocity_is_nan) * 2
    + B(s.faultStatus.bad_xmag) * 4
    + B(s.faultStatus.bad_ymag) * 8
    + B(s.faultStatus.bad_zmag) * 16
    + B(s.faultStatus.bad_airspeed) * 32
    + B(s.faultStatus.bad_sideslip) * 64
    + B(~s.statesInitialised) * 128

(***************************************************************************)
(* HealthEvaluator: healthy                                                *)
(***************************************************************************)
SettleTime_ms == 1000

healthy_SignedElapsed(s) ==
    LET faultInt   == getFilterFaults(s)
        horizErrSq == sq(s.innovVelPos[3]) + sq(s.innovVelPos[4])
    IN  IF faultInt > 0 THEN FALSE
        ELSE IF s.velTestRatio > Fx(1) /\ s.posTestRatio > Fx(1) /\ s.hgtTestRatio > Fx(1)
             THEN FALSE
        ELSE IF fabsf(s.imuSampleTime_ms - s.ekfStartTime_ms) < SettleTime_ms THEN FALSE
        ELSE IF s.onGround /\ s.PV_AidingMode = "AID_NONE"
                /\ (horizErrSq > sq(Fx(1)) \/ fabsf(s.hgtInnovFiltState) > Fx(1))
             THEN FALSE
        ELSE TRUE

healthy_AnyRatio(s) ==
    LET faultInt   == getFilterFaults(s)
        horizErrSq == sq(s.innovVelPos[3]) + sq(s.innovVelPos[4])
    IN  IF faultInt > 0 THEN FALSE
        ELSE IF s.velTestRatio > Fx(1) \/ s.posTestRatio > Fx(1) \/ s.hgtTestRatio > Fx(1)
             THEN FALSE
        ELSE IF SubU32(s.imuSampleTime_ms, s.ekfStartTime_ms) < SettleTime_ms THEN FALSE
        ELSE IF s.onGround /\ s.PV_AidingMode = "AID_NONE"
                /\ (horizErrSq > sq(Fx(1)) \/ fabsf(s.hgtInnovFiltState) > Fx(1))
             THEN FALSE
        ELSE TRUE

healthy(s) ==
    LET faultInt   == getFilterFaults(s)
        horizErrSq == sq(s.innovVelPos[3]) + sq(s.innovVelPos[4])
    IN  IF faultInt > 0 THEN FALSE
        ELSE IF s.velTestRatio > Fx(1) /\ s.posTestRatio > Fx(1) /\ s.hgtTestRatio > Fx(1)
             THEN FALSE
        ELSE IF SubU32(s.imuSampleTime_ms, s.ekfStartTime_ms) < SettleTime_ms THEN FALSE
        ELSE IF s.onGround /\ s.PV_AidingMode = "AID_NONE"
                /\ (horizErrSq > sq(Fx(1)) \/ fabsf(s.hgtInnovFiltState) > Fx(1))
             THEN FALSE
        ELSE TRUE

(***************************************************************************)
(* ErrorScorer: errorScore                                                 *)
(***************************************************************************)
\* 0.5f * x and 0.3f * x; the ratios drawn below are multiples of 0.1, for
\* which both products are exact in hundredths
Half(x)   == TruncDiv(5 * x, 10)
Tenths3(x) == TruncDiv(3 * x, 10)

errorScore_SumChannels(s) ==
    IF s.tiltAlignComplete /\ s.yawAlignComplete
    THEN LET s1 == MAX(0, Half(s.velTestRatio + s.posTestRatio))
             s2 == s1 + s.hgtTestRatio
             s3 == IF s.zeroSideslip
                      /\ s.arsp.present /\ s.arsp.num_sensors >= 2
                      /\ "EKF_AFFINITY_ARSP" \in s.affinity
                   THEN MAX(s2, Tenths3(s.tasTestRatio))
                   ELSE s2
             s4 == IF "EKF_AFFINITY_MAG" \in s.affinity
                   THEN MAX(s3, Tenths3(s.magTestRatio.x + s.magTestRatio.y + s.magTestRatio.z))
                   ELSE s3
         IN  s4
    ELSE 0

errorScore_TiltOnly(s) ==
    IF s.tiltAlignComplete
    THEN LET s1 == MAX(0, Half(s.velTestRatio + s.posTestRatio))
             s2 == MAX(s1, s.hgtTestRatio)
             s3 == IF s.zeroSideslip
                      /\ s.arsp.present /\ s.arsp.num_sensors >= 2
                      /\ "EKF_AFFINITY_ARSP" \in s.affinity
                   THEN MAX(s2, Tenths3(s.tasTestRatio))
                   ELSE s2
             s4 == IF "EKF_AFFINITY_MAG" \in s.affinity
                   THEN MAX(s3, Tenths3(s.magTestRatio.x + s.magTestRatio.y + s.magTestRatio.z))
                   ELSE s3
         IN  s4
    ELSE 0

errorScore(s) ==
    IF s.tiltAlignComplete /\ s.yawAlignComplete
    THEN LET s1 == MAX(0, Half(s.velTestRatio + s.posTestRatio))
             s2 == MAX(s1, s.hgtTestRatio)
             s3 == IF s.zeroSideslip
                      /\ s.arsp.present /\ s.arsp.num_sensors >= 2
                      /\ "EKF_AFFINITY_ARSP" \in s.affinity
                   THEN MAX(s2, Tenths3(s.tasTestRatio))
                   ELSE s2
             s4 == IF "EKF_AFFINITY_MAG" \in s.affinity
                   THEN MAX(s3, Tenths3(s.magTestRatio.x + s.magTestRatio.y + s.magTestRatio.z))
                   ELSE s3
         IN  s4
    ELSE 0

(***************************************************************************)
(* Location (AP_Common): the two operations the resolver uses.  One unit   *)
(* of lat / lng (1e-7 degree) is about 1.11 cm on the ground; longitude    *)
(* scaling with latitude is left out (positions near the equator).         *)
(***************************************************************************)
\* Location::offset(ofs_north, ofs_east), offsets in cm
Location_offset(loc, ofs_north, ofs_east) ==
    [loc EXCEPT !.lat = @ + TruncDiv(9 * ofs_north, 10),
                !.lng = @ + TruncDiv(9 * ofs_east, 10)]

\* Location::get_distance_NE(loc2), result in cm
get_distance_NE(loc1, loc2) ==
    [x |-> TruncDiv(111 * (loc2.lat - loc1.lat), 100),
     y |-> TruncDiv(111 * (loc2.lng - loc1.lng), 100)]

\* a default-constructed Location
ZeroLocation == [lat |-> 0, lng |-> 0, alt |-> 0, relative_alt |-> 0, terrain_alt |-> 0]

GPS_OK_FIX_2D == 2
GPS_OK_FIX_3D == 3

\* (frontend->_originHgtMode & (1<<2)) == 0
OriginHgtBit2Clear(s) == (s.originHgtMode \div 4) % 2 = 0

(***************************************************************************)
(* PositionResolver                                                        *)
(***************************************************************************)
\* getPosNE(posNE): the returned flag and the value of posNE afterwards
getPosNE_BeaconBeforeGps(s, posNE) ==
    IF s.PV_AidingMode # "AID_NONE"
    THEN [ret |-> TRUE,
          posNE |-> [x |-> s.outputDataNew.position.x + s.posOffsetNED.x,
                     y |-> s.outputDataNew.position.y + s.posOffsetNED.y]]
    ELSE IF s.validOrigin
         THEN IF s.rngBcnAlignmentStarted
              THEN [ret |-> FALSE, posNE |-> [x |-> s.receiverPos.x, y |-> s.receiverPos.y]]
              ELSE IF s.gps.status >= GPS_OK_FIX_2D
              THEN [ret |-> FALSE, posNE |-> get_distance_NE(s.EKF_origin, s.gps.location)]
              ELSE [ret |-> FALSE,
                    posNE |-> [x |-> s.outputDataNew.position.x,
                               y |-> s.outputDataNew.position.y]]
         ELSE [ret |-> FALSE, posNE |-> [x |-> 0, y |-> 0]]

getPosNE_ValidOnGps(s, posNE) ==
    IF s.PV_AidingMode # "AID_NONE"
    THEN [ret |-> TRUE,
          posNE |-> [x |-> s.outputDataNew.position.x + s.posOffsetNED.x,
                     y |-> s.outputDataNew.position.y + s.posOffsetNED.y]]
    ELSE IF s.validOrigin
         THEN IF s.gps.status >= GPS_OK_FIX_2D
              THEN [ret |-> TRUE, posNE |-> get_distance_NE(s.EKF_origin, s.gps.location)]
              ELSE IF s.rngBcnAlignmentStarted
              THEN [ret |-> FALSE, posNE |-> [x |-> s.receiverPos.x, y |-> s.receiverPos.y]]
              ELSE [ret |-> FALSE,
                    posNE |-> [x |-> s.outputDataNew.position.x,
                               y |-> s.outputDataNew.position.y]]
         ELSE [ret |-> FALSE, posNE |-> [x |-> 0, y |-> 0]]

getPosNE(s, posNE) ==
    IF s.PV_AidingMode # "AID_NONE"
    THEN [ret |-> TRUE,
          posNE |-> [x |-> s.outputDataNew.position.x + s.posOffsetNED.x,
                     y |-> s.outputDataNew.position.y + s.posOffsetNED.y]]
    ELSE IF s.validOrigin
         THEN IF s.gps.status >= GPS_OK_FIX_2D
              THEN [ret |-> FALSE, posNE |-> get_distance_NE(s.EKF_origin, s.gps.location)]
              ELSE IF s.rngBcnAlignmentStarted
              THEN [ret |-> FALSE, posNE |-> [x |-> s.receiverPos.x, y |-> s.receiverPos.y]]
              ELSE [ret |-> FALSE,
                    posNE |-> [x |-> s.outputDataNew.position.x,
                               y |-> s.outputDataNew.position.y]]
         ELSE [ret |-> FALSE, posNE |-> [x |-> 0, y |-> 0]]

getPosD_NoRefCorrection(s) ==
    [ret  |-> s.filterStatus.flags.vert_pos,
     posD |-> IF OriginHgtBit2Clear(s)
              THEN s.outputDataNew.position.z + s.posOffsetNED.z
              ELSE s.outputDataNew.position.z + s.posOffsetNED.z
                   + 10 * s.EKF_origin.alt]

\* getPosD(posD): posD in mm; 0.01f * EKF_origin.alt (cm) is 10 mm per cm
getPosD(s) ==
    [ret  |-> s.filterStatus.flags.vert_pos,
     posD |-> IF OriginHgtBit2Clear(s)
              THEN s.outputDataNew.position.z + s.posOffsetNED.z
              ELSE s.outputDataNew.position.z + s.posOffsetNED.z
                   + 10 * s.EKF_origin.alt - s.ekfGpsRefHgt]

getHAGL(s) ==
    [ret  |-> ~s.hgtTimeout /\ s.gndOffsetValid /\ healthy(s),
     HAGL |-> s.terrainState - s.outputDataNew.position.z - s.posOffsetNED.z]

\* getOriginLLH(loc); (int32_t)(100.0f * ekfGpsRefHgt) with ekfGpsRefHgt in mm
getOriginLLH(s, loc) ==
    [ret |-> s.validOrigin,
     loc |-> IF s.validOrigin
             THEN IF OriginHgtBit2Clear(s)
                  THEN [s.EKF_origin EXCEPT !.alt = TruncDiv(s.ekfGpsRefHgt, 10)]
                  ELSE s.EKF_origin
             ELSE loc]

getGPSLLH_Accept2D(s, loc) ==
    IF s.gps.status >= GPS_OK_FIX_2D
    THEN [ret |-> TRUE, loc |-> s.gps.location]
    ELSE [ret |-> FALSE, loc |-> loc]

getGPSLLH(s, loc) ==
    IF s.gps.status >= GPS_OK_FIX_3D
    THEN [ret |-> TRUE, loc |-> s.gps.location]
    ELSE [ret |-> FALSE, loc |-> loc]

\* loc.alt = origin.alt - posD*100, assigned to the int32 altitude (cm); posD in mm
getLLH_alt_AddPosD(origin, posD) == TruncDiv(10 * origin.alt + posD, 10)

getLLH_alt(origin, posD) == TruncDiv(10 * origin.alt - posD, 10)

\* getLLH(loc): the returned flag and the value of loc afterwards
getLLH(s, loc) ==
    LET o == getOriginLLH(s, ZeroLocation)
        origin == o.loc
    IN  IF o.ret
        THEN LET pd == getPosD(s)
             IN  IF pd.ret /\ s.PV_AidingMode # "AID_NONE"
                 THEN LET loc1 == [loc EXCEPT !.alt = getLLH_alt(origin, pd.posD),
                                              !.relative_alt = 0,
                                              !.terrain_alt = 0]
                          ekfLoc == Location_offset(
                                        [loc1 EXCEPT !.lat = s.EKF_origin.lat,
                                                     !.lng = s.EKF_origin.lng],
                                        s.outputDataNew.position.x,
                                        s.outputDataNew.position.y)
                      IN  IF s.filterStatus.flags.horiz_pos_abs
                             \/ s.filterStatus.flags.horiz_pos_rel
                          THEN [ret |-> TRUE, loc |-> ekfLoc]
                          ELSE LET g == getGPSLLH(s, loc1)
                               IN  IF g.ret
                                   THEN [ret |-> TRUE, loc |-> g.loc]
                                   ELSE [ret |-> FALSE, loc |-> ekfLoc]
                 ELSE LET g == getGPSLLH(s, loc)
                      IN  IF g.ret
                          THEN [ret |-> TRUE, loc |-> g.loc]
                          ELSE [ret |-> FALSE,
                                loc |-> Location_offset(
                                            [loc EXCEPT !.lat = s.EKF_origin.lat,
                                                        !.lng = s.EKF_origin.lng],
                                            s.lastKnownPositionNE.x,
                                            s.lastKnownPositionNE.y)]
        ELSE getGPSLLH(s, loc)

(***************************************************************************)
(* InnovationReporter: getVelInnovationsAndVariancesForSource              *)
(***************************************************************************)
InnovTimeout_ms == 500

getVelInnovationsAndVariancesForSource_Strict(s, source, innovations, variances) ==
    LET fail == [ret |-> FALSE, innovations |-> innovations, variances |-> variances]
    IN  CASE source = "GPS" ->
                IF SubU32(s.millis, s.gpsVelInnovTime_ms) >= InnovTimeout_ms
                THEN fail
                ELSE [ret |-> TRUE, innovations |-> s.gpsVelInnov,
                      variances |-> s.gpsVelVarInnov]
          [] source = "EXTNAV" /\ s.featureExternalNav ->
                IF SubU32(s.millis, s.extNavVelInnovTime_ms) > InnovTimeout_ms
                THEN fail
                ELSE [ret |-> TRUE, innovations |-> s.extNavVelInnov,
                      variances |-> s.extNavVelVarInnov]
          [] OTHER -> fail

getVelInnovationsAndVariancesForSource(s, source, innovations, variances) ==
    LET fail == [ret |-> FALSE, innovations |-> innovations, variances |-> variances]
    IN  CASE source = "GPS" ->
                IF SubU32(s.millis, s.gpsVelInnovTime_ms) > InnovTimeout_ms
                THEN fail
                ELSE [ret |-> TRUE, innovations |-> s.gpsVelInnov,
                      variances |-> s.gpsVelVarInnov]
          [] source = "EXTNAV" /\ s.featureExternalNav ->
                IF SubU32(s.millis, s.extNavVelInnovTime_ms) > InnovTimeout_ms
                THEN fail
                ELSE [ret |-> TRUE, innovations |-> s.extNavVelInnov,
                      variances |-> s.extNavVelVarInnov]
          [] OTHER -> fail

(***************************************************************************)
(* InnovationReporter: getVariances                                        *)
(***************************************************************************)
\* sqrtf of a non-negative value in hundredths, rounded down to hundredths:
\* sqrt(x / 100) * 100 = sqrt(100 * x)
sqrtf(x) == CHOOSE r \in 0..(x + 25) : r * r <= 100 * x /\ (r + 1) * (r + 1) > 100 * x

fmaxf(a, b) == IF a > b THEN a ELSE b

getVariances_NoYaw(s) ==
    [velVar |-> sqrtf(s.velTestRatio),
     posVar |-> sqrtf(s.posTestRatio),
     hgtVar |-> sqrtf(s.hgtTestRatio),
     magVar |-> [x |-> sqrtf(s.magTestRatio.x),
                 y |-> sqrtf(s.magTestRatio.y),
                 z |-> sqrtf(s.magTestRatio.z)],
     tasVar |-> sqrtf(s.tasTestRatio),
     offset |-> s.posResetNE]

\* getVariances(velVar, posVar, hgtVar, magVar, tasVar, offset): the values written
getVariances(s) ==
    [velVar |-> sqrtf(s.velTestRatio),
     posVar |-> sqrtf(s.posTestRatio),
     hgtVar |-> sqrtf(s.hgtTestRatio),
     magVar |-> [x |-> sqrtf(MAX(s.magTestRatio.x, s.yawTestRatio)),
                 y |-> sqrtf(MAX(s.magTestRatio.y, s.yawTestRatio)),
                 z |-> sqrtf(MAX(s.magTestRatio.z, s.yawTestRatio))],
     tasVar |-> sqrtf(s.tasTestRatio),
     offset |-> s.posResetNE]

(***************************************************************************)
(* FaultStatusAggregator: send_status_report                               *)
(***************************************************************************)
\* EKF_STATUS_FLAGS of the EKF_STATUS_REPORT message
EKF_ATTITUDE           == 1
EKF_VELOCITY_HORIZ     == 2
EKF_VELOCITY_VERT      == 4
EKF_POS_HORIZ_REL      == 8
EKF_POS_HORIZ_ABS      == 16
EKF_POS_VERT_ABS       == 32
EKF_POS_VERT_AGL       == 64
EKF_CONST_POS_MODE     == 128
EKF_PRED_POS_HORIZ_REL == 256
EKF_PRED_POS_HORIZ_ABS == 512
EKF_UNINITIALIZED      == 1024

\* bitwise OR of two unsigned values
RECURSIVE BitOr(_, _)
BitOr(a, b) ==
    IF a = 0 THEN b
    ELSE IF b = 0 THEN a
    ELSE (IF a % 2 = 1 \/ b % 2 = 1 THEN 1 ELSE 0) + 2 * BitOr(a \div 2, b \div 2)

\* flags |= m, executed only if c
OrIf(flags, c, m) == IF c THEN BitOr(flags, m) ELSE flags

send_status_report_flags_InitBitNotInverted(s) ==
    LET f   == s.filterStatus.flags
        f1  == OrIf(0,   f.attitude,           EKF_ATTITUDE)
        f2  == OrIf(f1,  f.horiz_vel,          EKF_VELOCITY_HORIZ)
        f3  == OrIf(f2,  f.vert_vel,           EKF_VELOCITY_VERT)
        f4  == OrIf(f3,  f.horiz_pos_rel,      EKF_POS_HORIZ_REL)
        f5  == OrIf(f4,  f.horiz_pos_abs,      EKF_POS_HORIZ_ABS)
        f6  == OrIf(f5,  f.vert_pos,           EKF_POS_VERT_ABS)
        f7  == OrIf(f6,  f.terrain_alt,        EKF_POS_VERT_AGL)
        f8  == OrIf(f7,  f.const_pos_mode,     EKF_CONST_POS_MODE)
        f9  == OrIf(f8,  f.pred_horiz_pos_rel, EKF_PRED_POS_HORIZ_REL)
        f10 == OrIf(f9,  f.pred_horiz_pos_abs, EKF_PRED_POS_HORIZ_ABS)
        f11 == OrIf(f10, f.initalized,         EKF_UNINITIALIZED)
        f12 == OrIf(f11, f.gps_glitching,      2^15)
    IN  f12

\* the uint16_t flags word
send_status_report_flags(s) ==
    LET f   == s.filterStatus.flags
        f1  == OrIf(0,   f.attitude,           EKF_ATTITUDE)
        f2  == OrIf(f1,  f.horiz_vel,          EKF_VELOCITY_HORIZ)
        f3  == OrIf(f2,  f.vert_vel,           EKF_VELOCITY_VERT)
        f4  == OrIf(f3,  f.horiz_pos_rel,      EKF_POS_HORIZ_REL)
        f5  == OrIf(f4,  f.horiz_pos_abs,      EKF_POS_HORIZ_ABS)
        f6  == OrIf(f5,  f.vert_pos,           EKF_POS_VERT_ABS)
        f7  == OrIf(f6,  f.terrain_alt,        EKF_POS_VERT_AGL)
        f8  == OrIf(f7,  f.const_pos_mode,     EKF_CONST_POS_MODE)
        f9  == OrIf(f8,  f.pred_horiz_pos_rel, EKF_PRED_POS_HORIZ_REL)
        f10 == OrIf(f9,  f.pred_horiz_pos_abs, EKF_PRED_POS_HORIZ_ABS)
        f11 == OrIf(f10, ~f.initalized,        EKF_UNINITIALIZED)
        f12 == OrIf(f11, f.gps_glitching,      2^15)
    IN  f12

\* temp: the range finder innovation level reported
send_status_report_temp(s) ==
    IF \/ (s.useRngSwHgt > 0 /\ s.activeHgtSource = "RANGEFINDER")
       \/ (s.PV_AidingMode = "AID_RELATIVE" /\ s.flowDataValid)
    THEN sqrtf(s.auxRngTestRatio)
    ELSE 0

\* the fields handed to mavlink_msg_ekf_status_report_send
send_status_report(s) ==
    LET v       == getVariances(s)
        mag_max == fmaxf(fmaxf(v.magVar.x, v.magVar.y), v.magVar.z)
    IN  [flags |-> send_status_report_flags(s),
         velVar |-> v.velVar, posVar |-> v.posVar, hgtVar |-> v.hgtVar,
         magVarMax |-> mag_max,
         rngVar |-> send_status_report_temp(s),
         tasVar |-> v.tasVar]

(***************************************************************************)
(* Inputs.  Each group of fields is either drawn from a small set (the     *)
(* "Any" form) or held at a nominal value (the "Nominal" form).            *)
(***************************************************************************)
MaxSensors   == 2      \* airspeed sensors fitted: 0..MaxSensors
MaxGpsStatus == 3      \* GPS status values drawn: 0..MaxGpsStatus

FaultNames  == {"quat", "vel", "xmag", "ymag", "zmag", "airspeed", "sideslip", "uninit"}
FaultInputs == {{}} \cup {{n} : n \in FaultNames} \cup {FaultNames}

SetFaults(f) ==
    /\ quat_is_nan = ("quat" \in f)
    /\ velocity_is_nan = ("vel" \in f)
    /\ faultStatus = [bad_xmag |-> "xmag" \in f, bad_ymag |-> "ymag" \in f,
                      bad_zmag |-> "zmag" \in f, bad_airspeed |-> "airspeed" \in f,
                      bad_sideslip |-> "sideslip" \in f]
    /\ statesInitialised = ("uninit" \notin f)

AnyFaults     == \E f \in FaultInputs : SetFaults(f)
InitFlagOnly  == \E f \in {{}, {"uninit"}} : SetFaults(f)
NominalFaults == SetFaults({})

RatioInputs == {20, 100, 200}
AnyRatios ==
    /\ velTestRatio \in RatioInputs
    /\ posTestRatio \in RatioInputs
    /\ hgtTestRatio \in RatioInputs
ScoreRatios ==
    /\ velTestRatio \in {0, 100, 200}
    /\ posTestRatio \in {0, 100, 200}
    /\ hgtTestRatio \in {0, 30, 150}
NominalRatios ==
    /\ velTestRatio = 20
    /\ posTestRatio = 30
    /\ hgtTestRatio = 10

StartTimes   == {0, TimerWrap - 1000, TimerWrap - 1}
ElapsedTimes == {0, 999, 1000, 5000}
AnyTimes ==
    /\ ekfStartTime_ms \in StartTimes
    /\ elapsedSinceStart \in ElapsedTimes
    /\ imuSampleTime_ms = (ekfStartTime_ms + elapsedSinceStart) % TimerWrap
NominalTimes ==
    /\ ekfStartTime_ms = 0
    /\ elapsedSinceStart = 5000
    /\ imuSampleTime_ms = 5000

AnyMode     == PV_AidingMode \in {"AID_ABSOLUTE", "AID_NONE", "AID_RELATIVE"}
NominalMode == PV_AidingMode = "AID_ABSOLUTE"

AnyStatic ==
    /\ onGround \in BOOLEAN
    /\ \E v \in {0, 500}, ne \in {<<0, 0>>, <<100, 0>>, <<-80, 80>>} :
          innovVelPos = [i \in 0..5 |-> CASE i < 3 -> v [] i = 3 -> ne[1]
                                           [] i = 4 -> ne[2] [] OTHER -> 0]
    /\ hgtInnovFiltState \in {-110, 0, 100}
NominalStatic ==
    /\ onGround = TRUE
    /\ innovVelPos = [i \in 0..5 |-> 0]
    /\ hgtInnovFiltState = 0

AnyScore ==
    /\ tiltAlignComplete \in BOOLEAN
    /\ yawAlignComplete \in BOOLEAN
    /\ tasTestRatio \in {0, 100, 1000}
    /\ magTestRatio \in [x : {0, 100}, y : {0, 100}, z : {0, 200}]
    /\ zeroSideslip \in BOOLEAN
    /\ arsp \in {[present |-> FALSE, num_sensors |-> 0]}
                \cup [present : {TRUE}, num_sensors : 0..MaxSensors]
    /\ affinity \in SUBSET {"EKF_AFFINITY_MAG", "EKF_AFFINITY_ARSP"}
NominalScore ==
    /\ tiltAlignComplete = TRUE
    /\ yawAlignComplete = TRUE
    /\ tasTestRatio = 0
    /\ magTestRatio = [x |-> 0, y |-> 0, z |-> 0]
    /\ zeroSideslip = FALSE
    /\ arsp = [present |-> FALSE, num_sensors |-> 0]
    /\ affinity = {}

NoFlags == [attitude |-> TRUE, horiz_vel |-> TRUE, vert_vel |-> TRUE,
            horiz_pos_rel |-> FALSE, horiz_pos_abs |-> FALSE, vert_pos |-> FALSE,
            terrain_alt |-> FALSE, const_pos_mode |-> FALSE,
            pred_horiz_pos_rel |-> FALSE, pred_horiz_pos_abs |-> FALSE,
            initalized |-> TRUE, gps_glitching |-> FALSE]

GpsLocation == [lat |-> 1000, lng |-> -2000, alt |-> 55555,
                relative_alt |-> 0, terrain_alt |-> 0]

AnyPos ==
    /\ outputDataNew \in [position : [x : {300}, y : {-200}, z : {-1005, 250}]]
    /\ posOffsetNED = [x |-> 10, y |-> 20, z |-> 7]
    /\ validOrigin \in BOOLEAN
    /\ EKF_origin \in [lat : {500}, lng : {700}, alt : {10000, 12345},
                       relative_alt : {0}, terrain_alt : {0}]
    /\ gps \in [status : 0..MaxGpsStatus, location : {GpsLocation}]
    /\ rngBcnAlignmentStarted \in BOOLEAN
    /\ receiverPos = [x |-> 1200, y |-> -450]
    /\ lastKnownPositionNE = [x |-> 70, y |-> 80]
    /\ originHgtMode \in {0, 4}
    /\ ekfGpsRefHgt \in {100000, 123456}
    /\ \E vp \in BOOLEAN, ha \in BOOLEAN, hr \in BOOLEAN :
          filterStatus = [flags |-> [NoFlags EXCEPT !.vert_pos = vp,
                                                    !.horiz_pos_abs = ha,
                                                    !.horiz_pos_rel = hr]]
    /\ terrainState = 2000
    /\ hgtTimeout \in BOOLEAN
    /\ gndOffsetValid \in BOOLEAN
NominalPos ==
    /\ outputDataNew = [position |-> [x |-> 300, y |-> -200, z |-> -1005]]
    /\ posOffsetNED = [x |-> 10, y |-> 20, z |-> 7]
    /\ validOrigin = TRUE
    /\ EKF_origin = [lat |-> 500, lng |-> 700, alt |-> 10000,
                     relative_alt |-> 0, terrain_alt |-> 0]
    /\ gps = [status |-> GPS_OK_FIX_3D, location |-> GpsLocation]
    /\ rngBcnAlignmentStarted = FALSE
    /\ receiverPos = [x |-> 1200, y |-> -450]
    /\ lastKnownPositionNE = [x |-> 70, y |-> 80]
    /\ originHgtMode = 0
    /\ ekfGpsRefHgt = 100000
    /\ filterStatus = [flags |-> [NoFlags EXCEPT !.vert_pos = TRUE, !.horiz_pos_abs = TRUE]]
    /\ terrainState = 2000
    /\ hgtTimeout = FALSE
    /\ gndOffsetValid = TRUE

Vec(a, b, c) == [x |-> a, y |-> b, z |-> c]

InnovStamps == {0, 1000, TimerWrap - 200}
InnovAges   == {0, 300, 500, 501, 30000, TimerWrap - 1}
AnyInnov ==
    /\ gpsVelInnovTime_ms \in InnovStamps
    /\ gpsInnovAge \in InnovAges
    /\ millis = (gpsVelInnovTime_ms + gpsInnovAge) % TimerWrap
    /\ gpsVelInnov \in {Vec(0, 0, 0), Vec(15, -25, 5)}
    /\ gpsVelVarInnov \in {Vec(0, 0, 0), Vec(40, 40, 90)}
    /\ extNavVelInnovTime_ms \in {0, 1000}
    /\ extNavVelInnov = Vec(-3, 4, 1)
    /\ extNavVelVarInnov = Vec(20, 20, 30)
    /\ featureExternalNav \in BOOLEAN
NominalInnov ==
    /\ gpsVelInnovTime_ms = 0
    /\ gpsInnovAge = 0
    /\ millis = 0
    /\ gpsVelInnov = Vec(0, 0, 0)
    /\ gpsVelVarInnov = Vec(0, 0, 0)
    /\ extNavVelInnovTime_ms = 0
    /\ extNavVelInnov = Vec(0, 0, 0)
    /\ extNavVelVarInnov = Vec(0, 0, 0)
    /\ featureExternalNav = TRUE

NominalReport ==
    /\ yawTestRatio = 0
    /\ auxRngTestRatio = 0
    /\ posResetNE = [x |-> 0, y |-> 0]
    /\ useRngSwHgt = -1
    /\ activeHgtSource = "BARO"
    /\ flowDataValid = FALSE

\* the consistency ratios and range finder configuration drawn, flags nominal
AnyReportLevels ==
    /\ tiltAlignComplete = TRUE
    /\ yawAlignComplete = TRUE
    /\ tasTestRatio = 100
    /\ magTestRatio \in [x : {0, 100, 400}, y : {0, 100}, z : {0, 25}]
    /\ zeroSideslip = FALSE
    /\ arsp = [present |-> FALSE, num_sensors |-> 0]
    /\ affinity = {}
    /\ yawTestRatio \in {0, 100, 900}
    /\ auxRngTestRatio \in {0, 25, 400}
    /\ posResetNE = [x |-> 150, y |-> -50]
    /\ useRngSwHgt \in {-1, 0, 70}
    /\ activeHgtSource \in {"BARO", "RANGEFINDER", "GPS"}
    /\ flowDataValid \in BOOLEAN
    /\ PV_AidingMode \in {"AID_ABSOLUTE", "AID_NONE", "AID_RELATIVE"}
    /\ NominalPos

FlagNames == {"attitude", "horiz_vel", "vert_vel", "horiz_pos_rel", "horiz_pos_abs",
              "vert_pos", "terrain_alt", "const_pos_mode", "pred_horiz_pos_rel",
              "pred_horiz_pos_abs", "initalized", "gps_glitching"}

\* every combination of the filter status flags, levels nominal
AnyReportFlags ==
    /\ NominalScore
    /\ yawTestRatio = 0
    /\ auxRngTestRatio = 400
    /\ posResetNE = [x |-> 0, y |-> 0]
    /\ useRngSwHgt = 70
    /\ activeHgtSource \in {"BARO", "RANGEFINDER"}
    /\ flowDataValid = FALSE
    /\ PV_AidingMode \in {"AID_ABSOLUTE", "AID_NONE"}
    /\ outputDataNew = [position |-> [x |-> 300, y |-> -200, z |-> -1005]]
    /\ posOffsetNED = [x |-> 10, y |-> 20, z |-> 7]
    /\ validOrigin = TRUE
    /\ EKF_origin = [lat |-> 500, lng |-> 700, alt |-> 10000,
                     relative_alt |-> 0, terrain_alt |-> 0]
    /\ gps = [status |-> GPS_OK_FIX_3D, location |-> GpsLocation]
    /\ rngBcnAlignmentStarted = FALSE
    /\ receiverPos = [x |-> 1200, y |-> -450]
    /\ lastKnownPositionNE = [x |-> 70, y |-> 80]
    /\ originHgtMode = 0
    /\ ekfGpsRefHgt = 100000
    /\ \E on \in SUBSET FlagNames :
          filterStatus = [flags |-> [n \in FlagNames |-> n \in on]]
    /\ terrainState = 2000
    /\ hgtTimeout = FALSE
    /\ gndOffsetValid = TRUE

NoQuery == op = "none" /\ arg = <<>> /\ ret = <<>>

(***************************************************************************)
(* Queries: each const member function, applied to the current object.     *)
(***************************************************************************)
Call_healthy ==
    /\ op' = "healthy" /\ arg' = <<>>
    /\ ret' = healthy(core)
    /\ UNCHANGED coreVars

Call_getFilterFaults ==
    /\ op' = "getFilterFaults" /\ arg' = <<>>
    /\ ret' = getFilterFaults(core)
    /\ UNCHANGED coreVars

Call_errorScore ==
    /\ op' = "errorScore" /\ arg' = <<>>
    /\ ret' = errorScore(core)
    /\ UNCHANGED coreVars

Call_getPosNE ==
    /\ op' = "getPosNE" /\ arg' = [posNE |-> [x |-> -1, y |-> -1]]
    /\ ret' = getPosNE(core, arg'.posNE)
    /\ UNCHANGED coreVars

Call_getPosD ==
    /\ op' = "getPosD" /\ arg' = <<>>
    /\ ret' = getPosD(core)
    /\ UNCHANGED coreVars

Call_getHAGL ==
    /\ op' = "getHAGL" /\ arg' = <<>>
    /\ ret' = getHAGL(core)
    /\ UNCHANGED coreVars

\* what the caller's Location may hold before the call
LocInputs == {ZeroLocation,
              [lat |-> 11, lng |-> 22, alt |-> 33, relative_alt |-> 1, terrain_alt |-> 1]}

Call_getLLH ==
    /\ \E loc \in LocInputs :
          /\ op' = "getLLH" /\ arg' = [loc |-> loc]
          /\ ret' = getLLH(core, loc)
    /\ UNCHANGED coreVars

Call_getOriginLLH ==
    /\ op' = "getOriginLLH" /\ arg' = [loc |-> ZeroLocation]
    /\ ret' = getOriginLLH(core, ZeroLocation)
    /\ UNCHANGED coreVars

Call_getGPSLLH ==
    /\ op' = "getGPSLLH" /\ arg' = [loc |-> ZeroLocation]
    /\ ret' = getGPSLLH(core, ZeroLocation)
    /\ UNCHANGED coreVars

Sources == {"NONE", "GPS", "BEACON", "OPTFLOW", "EXTNAV", "WHEEL_ENCODER"}

Call_getVelInnovationsAndVariancesForSource ==
    /\ \E source \in Sources, prior \in {Vec(0, 0, 0), Vec(7, 8, 9)} :
          /\ op' = "getVelInnovationsAndVariancesForSource"
          /\ arg' = [source |-> source, innovations |-> prior, variances |-> prior]
          /\ ret' = getVelInnovationsAndVariancesForSource(core, source, prior, prior)
    /\ UNCHANGED coreVars

Call_getVariances ==
    /\ op' = "getVariances" /\ arg' = <<>>
    /\ ret' = getVariances(core)
    /\ UNCHANGED coreVars

Call_send_status_report ==
    /\ op' = "send_status_report" /\ arg' = <<>>
    /\ ret' = send_status_report(core)
    /\ UNCHANGED coreVars

(***************************************************************************)
(* Specifications, one per component                                       *)
(***************************************************************************)
InitHealth ==
    /\ AnyFaults /\ AnyRatios /\ AnyTimes /\ AnyMode /\ AnyStatic
    /\ NominalScore /\ NominalPos /\ NominalInnov /\ NominalReport /\ NoQuery
NextHealth == Call_healthy \/ Call_getFilterFaults
SpecHealth == InitHealth /\ [][NextHealth]_vars

InitScore ==
    /\ NominalFaults /\ ScoreRatios /\ NominalTimes /\ NominalMode /\ NominalStatic
    /\ AnyScore /\ NominalPos /\ NominalInnov /\ NominalReport /\ NoQuery
NextScore == Call_errorScore
SpecScore == InitScore /\ [][NextScore]_vars

InitPos ==
    /\ InitFlagOnly /\ NominalRatios /\ NominalTimes /\ AnyMode /\ NominalStatic
    /\ NominalScore /\ AnyPos /\ NominalInnov /\ NominalReport /\ NoQuery
NextPos ==
    \/ Call_getPosNE
    \/ Call_getPosD
    \/ Call_getHAGL
    \/ Call_getLLH
    \/ Call_getOriginLLH
    \/ Call_getGPSLLH
SpecPos == InitPos /\ [][NextPos]_vars

InitInnov ==
    /\ NominalFaults /\ NominalRatios /\ NominalTimes /\ NominalMode /\ NominalStatic
    /\ NominalScore /\ NominalPos /\ AnyInnov /\ NominalReport /\ NoQuery
NextInnov == Call_getVelInnovationsAndVariancesForSource
SpecInnov == InitInnov /\ [][NextInnov]_vars

InitReport ==
    /\ NominalFaults /\ NominalRatios /\ NominalTimes /\ NominalStatic
    /\ NominalInnov /\ NoQuery
    /\ (AnyReportLevels \/ AnyReportFlags)
NextReport == Call_getVariances \/ Call_send_status_report
SpecReport == InitReport /\ [][NextReport]_vars

(***************************************************************************)
(* Properties                                                              *)
(***************************************************************************)
AnyFault ==
    \/ quat_is_nan \/ velocity_is_nan
    \/ faultStatus.bad_xmag \/ faultStatus.bad_ymag \/ faultStatus.bad_zmag
    \/ faultStatus.bad_airspeed \/ faultStatus.bad_sideslip
    \/ ~statesInitialised

AllRatiosHigh == velTestRatio > 100 /\ posTestRatio > 100 /\ hgtTestRatio > 100

StaticCheckFails ==
    /\ onGround
    /\ PV_AidingMode = "AID_NONE"
    /\ \/ innovVelPos[3] * innovVelPos[3] + innovVelPos[4] * innovVelPos[4] > 10000
       \/ hgtInnovFiltState > 100
       \/ hgtInnovFiltState < -100

\* C1: whenever one of the eight fault conditions holds, getFilterFaults returns
\* a non-zero mask and healthy() returns false, whatever the other fields are.
C1_FaultMeansUnhealthy ==
    AnyFault => /\ op = "getFilterFaults" => ret # 0
                /\ op = "healthy" => ret = FALSE
                /\ getFilterFaults(core) # 0

C1_Witness ==
    /\ op = "healthy" /\ ret = FALSE
    /\ faultStatus.bad_sideslip /\ ~quat_is_nan /\ statesInitialised
    /\ elapsedSinceStart = 5000 /\ ~AllRatiosHigh /\ ~onGround

\* C2: healthy() returns false whenever less than 1000 ms have elapsed since the
\* filter start time, also when the start time stamp is numerically greater than
\* the IMU sample time stamp because the millisecond timer wrapped in between.
C2_SettleTime ==
    (op = "healthy" /\ elapsedSinceStart < 1000) => ret = FALSE

C2_Witness ==
    /\ op = "healthy" /\ ret = FALSE
    /\ elapsedSinceStart = 999 /\ imuSampleTime_ms < ekfStartTime_ms
    /\ ~AnyFault /\ ~AllRatiosHigh /\ ~StaticCheckFails

\* C3: healthy() returns true exactly when none of the four disqualifiers holds
\* (a fault bit; all three of vel/pos/hgt ratio above 1; less than 1000 ms since
\* start; the on-ground static check under AID_NONE), and the velocity
\* innovations innovVelPos[0..2] do not influence the result.
C3_HealthyExactly ==
    /\ op = "healthy" =>
          ret = ~(AnyFault \/ AllRatiosHigh \/ elapsedSinceStart < 1000 \/ StaticCheckFails)
    /\ \A v \in {-300, 0, 500} :
          healthy([core EXCEPT !.innovVelPos =
                      [i \in 0..5 |-> IF i < 3 THEN v ELSE innovVelPos[i]]]) = healthy(core)

C3_Witness ==
    /\ op = "healthy" /\ ret = TRUE
    /\ velTestRatio = 200 /\ posTestRatio = 200 /\ hgtTestRatio = 100
    /\ onGround /\ PV_AidingMode = "AID_RELATIVE"
    /\ innovVelPos[0] = 500 /\ innovVelPos[3] = -80 /\ innovVelPos[4] = 80
    /\ hgtInnovFiltState = -110

Aligned == tiltAlignComplete /\ yawAlignComplete

ArspChannelActive ==
    /\ zeroSideslip
    /\ arsp.present /\ arsp.num_sensors >= 2
    /\ "EKF_AFFINITY_ARSP" \in affinity

MagChannelActive == "EKF_AFFINITY_MAG" \in affinity

MagSum == magTestRatio.x + magTestRatio.y + magTestRatio.z

\* the channel values of the error score, in hundredths
ActiveChannels ==
    {(5 * (velTestRatio + posTestRatio)) \div 10, hgtTestRatio}
    \cup (IF ArspChannelActive THEN {(3 * tasTestRatio) \div 10} ELSE {})
    \cup (IF MagChannelActive THEN {(3 * MagSum) \div 10} ELSE {})

SetMax(S) == CHOOSE m \in S : \A x \in S : x <= m

\* C4 (as stated): errorScore() returns 0 if and only if alignment is incomplete.
C4_ZeroIffUnaligned ==
    op = "errorScore" => (ret = 0 <=> ~Aligned)

\* C4 (amended): errorScore() returns 0 whenever alignment is incomplete; with
\* alignment complete it returns 0 exactly when every active channel is zero.
C4_ZeroWhenUnalignedOrAllZero ==
    op = "errorScore" =>
        /\ ~Aligned => ret = 0
        /\ Aligned => (ret = 0 <=> \A c \in ActiveChannels : c = 0)

C4_Witness ==
    /\ op = "errorScore" /\ ret = 0 /\ Aligned
    /\ velTestRatio = 0 /\ posTestRatio = 0 /\ hgtTestRatio = 0
    /\ tasTestRatio = 1000 /\ ~ArspChannelActive

\* C5: with alignment complete, errorScore() is the maximum of the active
\* channels (0.5*(vel+pos), hgt, 0.3*tas if the airspeed channel is active,
\* 0.3*(mag.x+mag.y+mag.z) if magnetometer affinity is set); it is non-negative,
\* non-decreasing in every ratio, and does not change with tasTestRatio /
\* magTestRatio when the respective channel is inactive.
C5_MaxOfActiveChannels ==
    (op = "errorScore" /\ Aligned) =>
        /\ ret = SetMax(ActiveChannels)
        /\ ret >= 0
        /\ \A d \in {10, 100} :
              /\ errorScore([core EXCEPT !.velTestRatio = @ + d]) >= ret
              /\ errorScore([core EXCEPT !.posTestRatio = @ + d]) >= ret
              /\ errorScore([core EXCEPT !.hgtTestRatio = @ + d]) >= ret
              /\ errorScore([core EXCEPT !.tasTestRatio = @ + d]) >= ret
              /\ errorScore([core EXCEPT !.magTestRatio.x = @ + d]) >= ret
              /\ errorScore([core EXCEPT !.magTestRatio.y = @ + d]) >= ret
              /\ errorScore([core EXCEPT !.magTestRatio.z = @ + d]) >= ret
        /\ ~ArspChannelActive =>
              \A r \in {0, 100, 1000} : errorScore([core EXCEPT !.tasTestRatio = r]) = ret
        /\ ~MagChannelActive =>
              \A r \in {0, 100, 1000} :
                  errorScore([core EXCEPT !.magTestRatio = [x |-> r, y |-> r, z |-> r]]) = ret

\* scenario D
C5_Witness ==
    /\ op = "errorScore" /\ ret = 30 /\ Aligned
    /\ ~MagChannelActive /\ magTestRatio.x = 100
    /\ "EKF_AFFINITY_ARSP" \in affinity /\ arsp.present /\ arsp.num_sensors = 2 /\ zeroSideslip
    /\ tasTestRatio = 100
    /\ velTestRatio = 0 /\ posTestRatio = 0 /\ hgtTestRatio = 0

PosQueries == {"getPosNE", "getPosD", "getLLH", "getHAGL"}

\* C6 (as stated): no position query reports validity true while the aiding
\* mode is AID_NONE: getPosNE, getPosD, getLLH and getHAGL all return false.
C6_NoValidityUnderAidNone ==
    (PV_AidingMode = "AID_NONE" /\ op \in PosQueries) => ret.ret = FALSE

\* C6 (amended): under AID_NONE getPosNE always returns false; getPosD returns
\* the vert_pos flag, getLLH returns true exactly when the GPS has a 3D fix, and
\* getHAGL returns !hgtTimeout && gndOffsetValid && healthy(), so each of these
\* three can report true under AID_NONE.
C6_ValidityUnderAidNone ==
    PV_AidingMode = "AID_NONE" =>
        /\ op = "getPosNE" => ret.ret = FALSE
        /\ op = "getPosD" => ret.ret = filterStatus.flags.vert_pos
        /\ op = "getLLH" => ret.ret = (gps.status >= 3)
        /\ op = "getHAGL" => ret.ret = (~hgtTimeout /\ gndOffsetValid /\ healthy(core))

C6_Witness ==
    /\ op = "getPosNE" /\ ret.ret = FALSE
    /\ PV_AidingMode = "AID_NONE" /\ validOrigin /\ gps.status = 3
    /\ filterStatus.flags.vert_pos /\ filterStatus.flags.horiz_pos_abs

\* the GPS location as an NE distance from the origin
GpsNE == get_distance_NE(EKF_origin, gps.location)

\* C7: getPosNE returns true iff the aiding mode is not AID_NONE, and its value
\* is, first match wins: aiding active -> filter position plus lever-arm offset;
\* origin invalid -> (0,0); GPS fix at least 2D -> GPS position relative to the
\* origin; range-beacon alignment started -> receiverPos; otherwise the last
\* filter position without the offset.
C7_PosNETiers ==
    op = "getPosNE" =>
        /\ ret.ret = (PV_AidingMode # "AID_NONE")
        /\ ret.posNE =
              CASE PV_AidingMode # "AID_NONE" ->
                      [x |-> outputDataNew.position.x + posOffsetNED.x,
                       y |-> outputDataNew.position.y + posOffsetNED.y]
                [] PV_AidingMode = "AID_NONE" /\ ~validOrigin -> [x |-> 0, y |-> 0]
                [] PV_AidingMode = "AID_NONE" /\ validOrigin /\ gps.status >= 2 -> GpsNE
                [] PV_AidingMode = "AID_NONE" /\ validOrigin /\ gps.status < 2
                   /\ rngBcnAlignmentStarted -> receiverPos
                [] OTHER -> [x |-> outputDataNew.position.x, y |-> outputDataNew.position.y]

\* scenario B
C7_Witness ==
    /\ op = "getPosNE"
    /\ PV_AidingMode = "AID_NONE" /\ validOrigin /\ gps.status < 2 /\ rngBcnAlignmentStarted
    /\ ret = [ret |-> FALSE, posNE |-> [x |-> 1200, y |-> -450]]

Navigating == validOrigin /\ filterStatus.flags.vert_pos /\ PV_AidingMode # "AID_NONE"

HorizPosFlag == filterStatus.flags.horiz_pos_abs \/ filterStatus.flags.horiz_pos_rel

Gps3D == gps.status >= 3

\* origin altitude (cm -> mm) minus the vertical position (mm), from the two
\* accessors a caller would use
OriginAltMinusPosD == 10 * getOriginLLH(core, ZeroLocation).loc.alt - getPosD(core).posD

\* C8 (as stated): for every snapshot, GPS status and origin-height mode, the
\* altitude written by getLLH equals the getOriginLLH altitude minus the getPosD
\* vertical position.
C8_AltitudeAlways ==
    op = "getLLH" => 10 * ret.loc.alt = OriginAltMinusPosD

\* C8 (amended): in both origin-height modes, whenever getLLH takes the altitude
\* from the filter (origin valid, vert_pos set, aiding not AID_NONE, and either a
\* horizontal position flag set or no GPS 3D fix), the altitude it writes is the
\* getOriginLLH altitude minus the getPosD vertical position, truncated toward
\* zero to whole centimetres.
C8_AltitudeFromFilter ==
    (op = "getLLH" /\ Navigating /\ (HorizPosFlag \/ ~Gps3D)) =>
        LET exact == OriginAltMinusPosD
            got   == 10 * ret.loc.alt
        IN  /\ (exact % 10 = 0) => got = exact
            /\ exact >= 0 => (got <= exact /\ exact - got < 10)
            /\ exact < 0  => (got >= exact /\ got - exact < 10)

C8_Witness ==
    /\ op = "getLLH" /\ Navigating /\ filterStatus.flags.horiz_pos_abs /\ Gps3D
    /\ originHgtMode = 4 /\ ekfGpsRefHgt = 123456 /\ EKF_origin.alt = 12345
    /\ ret.ret /\ ret.loc.alt # arg.loc.alt /\ ret.loc.alt # gps.location.alt

EkfLatLng(ne) == Location_offset(EKF_origin, ne.x, ne.y)

SameLatLng(a, b) == a.lat = b.lat /\ a.lng = b.lng

\* C9: getLLH returns true iff (origin valid, vert_pos set, aiding active and a
\* horizontal position flag set) -- then lat/lng are origin + filter NE position
\* even with a GPS 3D fix -- or the GPS has a 3D fix -- then the location is the
\* raw GPS location.  Otherwise it returns false with origin + lastKnownPositionNE
\* (origin valid, vert_pos clear or AID_NONE), origin + filter NE position
\* (origin valid, vert_pos set, aiding active, no horizontal flag), or the
\* location unwritten (origin invalid).  A 2D fix never makes it use GPS.
C9_LLHLayers ==
    op = "getLLH" =>
        /\ ret.ret = ((Navigating /\ HorizPosFlag) \/ Gps3D)
        /\ (Navigating /\ HorizPosFlag) =>
              SameLatLng(ret.loc, EkfLatLng(outputDataNew.position))
        /\ (~(Navigating /\ HorizPosFlag) /\ Gps3D) => ret.loc = gps.location
        /\ (~Gps3D /\ validOrigin /\ ~Navigating) =>
              SameLatLng(ret.loc, EkfLatLng(lastKnownPositionNE))
        /\ (~Gps3D /\ Navigating /\ ~HorizPosFlag) =>
              SameLatLng(ret.loc, EkfLatLng(outputDataNew.position))
        /\ (~Gps3D /\ ~validOrigin) => ret.loc = arg.loc
        /\ gps.status = 2 => ret.loc # gps.location

C9_Witness ==
    /\ op = "getLLH" /\ Navigating /\ ~HorizPosFlag /\ gps.status = 3
    /\ ret.ret /\ ret.loc = gps.location

\* C10: for the GPS source the query fails when the innovation time stamp is
\* more than 500 ms old and otherwise succeeds with the stored GPS innovations
\* and variances (an age of exactly 500 ms succeeds, also for a time stamp of 0);
\* a failed call leaves both outputs unchanged, and a source other than GPS and
\* external nav always fails.
C10_VelInnovStaleness ==
    op = "getVelInnovationsAndVariancesForSource" =>
        /\ (arg.source = "GPS" /\ gpsInnovAge > 500) => ret.ret = FALSE
        /\ (arg.source = "GPS" /\ gpsInnovAge <= 500) =>
              ret = [ret |-> TRUE, innovations |-> gpsVelInnov, variances |-> gpsVelVarInnov]
        /\ arg.source \notin {"GPS", "EXTNAV"} => ret.ret = FALSE
        /\ ret.ret = FALSE =>
              ret.innovations = arg.innovations /\ ret.variances = arg.variances

C10_Witness ==
    /\ op = "getVelInnovationsAndVariancesForSource" /\ arg.source = "GPS"
    /\ gpsVelInnovTime_ms = 0 /\ millis = 500
    /\ arg.innovations = Vec(7, 8, 9)
    /\ ret = [ret |-> TRUE, innovations |-> Vec(15, -25, 5), variances |-> Vec(40, 40, 90)]

RngIsHeightSource == activeHgtSource = "RANGEFINDER"

FlowAiding == PV_AidingMode = "AID_RELATIVE" /\ flowDataValid

\* C11: in the status report rngVar equals sqrt(auxRngTestRatio) whenever the
\* range finder is the active height source or (the aiding mode is relative and
\* optical-flow data is valid), and 0 in every other case; no other field
\* changes which of the two values is reported.
C11_RngVarReported ==
    op = "send_status_report" =>
        ret.rngVar = IF RngIsHeightSource \/ FlowAiding THEN sqrtf(auxRngTestRatio) ELSE 0

\* bit i of an unsigned word
BitOf(w, i) == (w \div 2^i) % 2 = 1

\* the filter status flag reported at bits 0..9, in bit order
FlagAtBit == <<"attitude", "horiz_vel", "vert_vel", "horiz_pos_rel", "horiz_pos_abs",
               "vert_pos", "terrain_alt", "const_pos_mode", "pred_horiz_pos_rel",
               "pred_horiz_pos_abs">>

\* C12: the 16-bit flags word of the status report has bits 0..9 set exactly
\* when attitude, horiz_vel, vert_vel, horiz_pos_rel, horiz_pos_abs, vert_pos,
\* terrain_alt, const_pos_mode, pred_horiz_pos_rel, pred_horiz_pos_abs are set,
\* bit 10 set exactly when initialised is not set, bit 15 set exactly when
\* gps_glitching is set, and bits 11..14 always clear.
C12_FlagsLayout ==
    op = "send_status_report" =>
        /\ ret.flags \in 0..(2^16 - 1)
        /\ \A i \in 0..9 : BitOf(ret.flags, i) = filterStatus.flags[FlagAtBit[i + 1]]
        /\ BitOf(ret.flags, 10) = ~filterStatus.flags.initalized
        /\ BitOf(ret.flags, 15) = filterStatus.flags.gps_glitching
        /\ \A i \in 11..14 : ~BitOf(ret.flags, i)

C12_Witness ==
    /\ op = "send_status_report"
    /\ ~filterStatus.flags.initalized /\ filterStatus.flags.gps_glitching
    /\ filterStatus.flags.terrain_alt /\ ~filterStatus.flags.attitude
    /\ filterStatus.flags.pred_horiz_pos_abs /\ ~filterStatus.flags.vert_pos
    /\ BitOf(ret.flags, 10) /\ BitOf(ret.flags, 15) /\ BitOf(ret.flags, 6)

\* r is the square root of x (hundredths), rounded down to hundredths
IsSqrtOf(r, x) == r >= 0 /\ r * r <= 100 * x /\ (r + 1) * (r + 1) > 100 * x

MagRatios == {magTestRatio.x, magTestRatio.y, magTestRatio.z}

\* C13 (as stated): magVarMax in the status report is the maximum of the square
\* roots of the three magnetometer ratios and does not change with yawTestRatio.
C13_MagVarMaxFromMagOnly ==
    op = "send_status_report" => IsSqrtOf(ret.magVarMax, SetMax(MagRatios))

\* C13 (amended): magVarMax in the status report is the square root of the
\* largest of magTestRatio.x, magTestRatio.y, magTestRatio.z and yawTestRatio; it
\* is the maximum of the three per-axis square roots whenever yawTestRatio does
\* not exceed the largest per-axis ratio.
C13_MagVarMaxWithYaw ==
    op = "send_status_report" =>
        /\ IsSqrtOf(ret.magVarMax, SetMax(MagRatios \cup {yawTestRatio}))
        /\ yawTestRatio <= SetMax(MagRatios) => IsSqrtOf(ret.magVarMax, SetMax(MagRatios))

C13_Witness ==
    /\ op = "send_status_report"
    /\ yawTestRatio = 900 /\ magTestRatio = [x |-> 400, y |-> 100, z |-> 25]
    /\ ret.magVarMax = 300

\* the object with bit 2 of the origin-height mode cleared / set
WithBit2(s, b) ==
    [s EXCEPT !.originHgtMode = (@ % 4) + 8 * (@ \div 8) + (IF b THEN 4 ELSE 0)]

\* ekfGpsRefHgt - position.z - posOffsetNED.z, in mm
RefMinusPosition == ekfGpsRefHgt - outputDataNew.position.z - posOffsetNED.z

\* C14 (as stated): with valid origin, vert_pos set, aiding not AID_NONE and
\* ekfGpsRefHgt a whole number of centimetres, getLLH with bit 2 of the
\* origin-height mode clear and with it set yields the same
\* loc.alt = 100*(ekfGpsRefHgt - position.z - posOffsetNED.z) cm.
C14_AltitudeModeIndependent ==
    (op = "getLLH" /\ Navigating /\ ekfGpsRefHgt % 10 = 0) =>
        LET a == getLLH(WithBit2(core, FALSE), arg.loc).loc.alt
            b == getLLH(WithBit2(core, TRUE), arg.loc).loc.alt
        IN  a = b /\ 10 * a = RefMinusPosition

\* C14 (amended): under the same preconditions both modes yield the same
\* loc.alt; when the altitude is taken from the filter (a horizontal position
\* flag set, or no GPS 3D fix) it is 100*(ekfGpsRefHgt - position.z -
\* posOffsetNED.z) cm truncated toward zero to whole centimetres, otherwise it is
\* the raw GPS altitude.  The getOriginLLH altitudes of the two modes are
\* 100*ekfGpsRefHgt and EKF_origin.alt, and the getPosD values differ by
\* 0.01*EKF_origin.alt - ekfGpsRefHgt.
C14_AltitudeModeIndependentTruncated ==
    (op = "getLLH" /\ Navigating /\ ekfGpsRefHgt % 10 = 0) =>
        LET a == getLLH(WithBit2(core, FALSE), arg.loc).loc.alt
            b == getLLH(WithBit2(core, TRUE), arg.loc).loc.alt
            exact == RefMinusPosition
        IN  /\ a = b /\ ret.loc.alt = a
            /\ (HorizPosFlag \/ ~Gps3D) =>
                  /\ (exact % 10 = 0) => 10 * a = exact
                  /\ exact >= 0 => (10 * a <= exact /\ exact - 10 * a < 10)
                  /\ exact < 0  => (10 * a >= exact /\ 10 * a - exact < 10)
            /\ (~HorizPosFlag /\ Gps3D) => a = gps.location.alt
            /\ 10 * getOriginLLH(WithBit2(core, FALSE), ZeroLocation).loc.alt = ekfGpsRefHgt
            /\ getOriginLLH(WithBit2(core, TRUE), ZeroLocation).loc.alt = EKF_origin.alt
            /\ getPosD(WithBit2(core, TRUE)).posD - getPosD(WithBit2(core, FALSE)).posD
                  = 10 * EKF_origin.alt - ekfGpsRefHgt

C14_Witness ==
    /\ op = "getLLH" /\ Navigating /\ HorizPosFlag
    /\ ekfGpsRefHgt = 100000 /\ EKF_origin.alt = 12345 /\ originHgtMode = 4
    /\ outputDataNew.position.z = -1005
    /\ ret.loc.alt = 10099

====
